---- MODULE Spec2Model ----
(***************************************************************************)
(* A model of main.py: the websocket connection registry and message       *)
(* router (ConnectionManager, websocket_endpoint) and the JSON-file CRUD   *)
(* handlers of the five collections.                                       *)
(*                                                                         *)
(* A channel is one accepted websocket connection; its handler             *)
(* (websocket_endpoint) is a coroutine that other handlers interleave with *)
(* at its awaits: accept, receive_text and send_text. Server shutdown is   *)
(* not modelled.                                                           *)
(***************************************************************************)
EXTENDS Integers, Sequences, FiniteSets, TLC

\* ------------------------------------------------------------------ bounds
NumChans == 3       \* websocket connections opened during a run
NumUsers == 2       \* user ids that connections are opened under
MaxFrames == 2      \* frames clients send during a run, over all channels

MaxRecords == 2     \* records held by the five collections together
MaxId == 3          \* largest id a create may assign, and largest id a request names
NumRequests == 2    \* create requests that run concurrently

Chans == 1..NumChans
Users == 1..NumUsers
Requests == 1..NumRequests
\* receiver ids a frame may name: every user id and one id nobody connects as
ReceiverIds == 1..(NumUsers + 1)
Texts == {"a", "b"}

\* ------------------------------------------------------------------ frames
\* A text frame as the client wrote it: either not JSON at all, or a JSON
\* object with some of the keys receiver_id and message.
WellFormedFrames ==
    {[json |-> TRUE, obj |-> [receiver_id |-> r, message |-> t]] :
        r \in ReceiverIds, t \in Texts}
MalformedFrames ==
    {[json |-> FALSE, obj |-> [garbage |-> 0]],
     [json |-> TRUE, obj |-> [message |-> "a"]],
     [json |-> TRUE, obj |-> [receiver_id |-> 1]]}
RawFrames == WellFormedFrames \cup MalformedFrames

NoPending == [kind |-> "none"]

VARIABLES
    active_connections, \* ConnectionManager.active_connections: user id -> channel
    pc,                 \* position of each channel's websocket_endpoint coroutine
    uid,                \* the user_id path parameter of each channel (0: not opened)
    open,               \* the connection is up (the peer has not closed, the server has not dropped it)
    inbox,              \* frames the client sent that receive_text has not returned yet
    pend,               \* the send_text a handler is suspended in, if any
    out,                \* frames written to each channel, in order
    nsent,              \* frames each client has sent; a frame's arrival number on its channel
    dropped,            \* history: frames that were discarded for an absent receiver
    evicted,            \* history: ids whose last registry operation was disconnect
    last_admit          \* history: user id -> the channel of its last connect

chatvars == <<active_connections, pc, uid, open, inbox, pend, out, nsent,
              dropped, evicted, last_admit>>

VARIABLES
    files,              \* the JSON files: file name -> the list load_data returns
    resp,               \* the response of the last request
    last_op,            \* history: the last request, its path id, and whether its body
                        \*   named another id (project_id) than the one that was stored
    deleted,            \* history: the ids deleted from each file, whether each was the
                        \*   highest of its file then, and whether a create reused it
    fresh,              \* history: the records created and not changed or deleted since
    req                 \* the create requests that run concurrently, each at its load or save

histvars == <<last_op, deleted, fresh>>
storevars == <<files, resp, histvars, req>>

vars == <<chatvars, storevars>>

\* ------------------------------------------------------------------ parsing
\* json.loads(data), line 229: a value, or JSONDecodeError.
json_loads(data) ==
    IF data.json THEN [ok |-> TRUE, val |-> data.obj]
                 ELSE [ok |-> FALSE, exc |-> "JSONDecodeError"]

\* Lines 229-231: the two subscripts raise KeyError on a missing key.
IsWellFormed(data) ==
    /\ json_loads(data).ok
    /\ "receiver_id" \in DOMAIN json_loads(data).val
    /\ "message" \in DOMAIN json_loads(data).val

\* ------------------------------------------------------------------ registry
\* ConnectionManager.connect after the accept: the entry is overwritten.
connect(websocket, user_id) ==
    [u \in DOMAIN active_connections \cup {user_id} |->
        IF u = user_id THEN websocket ELSE active_connections[u]]

disconnect_keep(user_id) == active_connections

\* ConnectionManager.disconnect: the entry of user_id is deleted, whichever
\* channel it holds.
disconnect(user_id) ==
    [u \in DOMAIN active_connections \ {user_id} |-> active_connections[u]]

send_message_echo(sender, sender_id, receiver_id, message) ==
    IF receiver_id \in DOMAIN active_connections
    THEN [kind |-> "send", to |-> sender, rid |-> receiver_id, text |-> message]
    ELSE NoPending

send_message_fixed(sender, sender_id, receiver_id, message) ==
    IF receiver_id \in DOMAIN active_connections
    THEN [kind |-> "send", to |-> active_connections[receiver_id],
          rid |-> receiver_id, text |-> "a"]
    ELSE NoPending

send_message_nocheck(sender, sender_id, receiver_id, message) ==
    IF receiver_id \in DOMAIN active_connections
    THEN [kind |-> "send", to |-> active_connections[receiver_id],
          rid |-> receiver_id, text |-> message]
    ELSE [kind |-> "raise", exc |-> "KeyError"]

\* ConnectionManager.send_message up to its await: the handle is looked up,
\* and send_text is entered on it, only when receiver_id is registered.
send_message(sender, sender_id, receiver_id, message) ==
    IF receiver_id \in DOMAIN active_connections
    THEN [kind |-> "send", to |-> active_connections[receiver_id],
          rid |-> receiver_id, text |-> message]
    ELSE NoPending

\* Lines 229-232: what one received frame makes the handler do.
process_frame(c, data) ==
    IF ~json_loads(data).ok
    THEN [kind |-> "raise", exc |-> json_loads(data).exc]
    ELSE IF "receiver_id" \notin DOMAIN json_loads(data).val
    THEN [kind |-> "raise", exc |-> "KeyError"]
    ELSE IF "message" \notin DOMAIN json_loads(data).val
    THEN [kind |-> "raise", exc |-> "KeyError"]
    ELSE send_message(c, uid[c], json_loads(data).val.receiver_id,
                      json_loads(data).val.message)

AfterLookup_nowait == "recv"

\* Line 232 awaits send_message: the loop does not go on to the next
\* receive_text while the send_text is outstanding.
AfterLookup == "send"

\* ------------------------------------------------------------------ chat: initial state
ChatInit ==
    /\ active_connections = << >>
    /\ pc = [c \in Chans |-> "idle"]
    /\ uid = [c \in Chans |-> 0]
    /\ open = [c \in Chans |-> FALSE]
    /\ inbox = [c \in Chans |-> << >>]
    /\ pend = [c \in Chans |-> {}]
    /\ out = [c \in Chans |-> << >>]
    /\ nsent = [c \in Chans |-> 0]
    /\ dropped = {}
    /\ evicted = {}
    /\ last_admit = [u \in Users |-> 0]

\* ------------------------------------------------------------------ chat: the clients
RECURSIVE SumTo(_, _)
SumTo(f, n) == IF n = 0 THEN 0 ELSE f[n] + SumTo(f, n - 1)
FramesSent == SumTo(nsent, NumChans)

\* A client writes one text frame on its open connection.
ClientSend(c, data) ==
    /\ pc[c] \in {"recv", "send"}
    /\ open[c]
    /\ FramesSent < MaxFrames
    /\ nsent' = [nsent EXCEPT ![c] = @ + 1]
    /\ inbox' = [inbox EXCEPT ![c] = Append(@, [seq |-> nsent[c] + 1, data |-> data])]
    /\ UNCHANGED <<active_connections, pc, uid, open, pend, out, dropped, evicted, last_admit>>
    /\ UNCHANGED storevars

\* A client closes its connection; its handler learns of it at receive_text.
ClientClose(c) ==
    /\ pc[c] \in {"recv", "send"}
    /\ open[c]
    /\ open' = [open EXCEPT ![c] = FALSE]
    /\ UNCHANGED <<active_connections, pc, uid, inbox, pend, out, nsent, dropped, evicted, last_admit>>
    /\ UNCHANGED storevars

\* ------------------------------------------------------------------ chat: websocket_endpoint
\* Line 225: a new connection under user_id is accepted and registered.
\* The handler holds no state before `await websocket.accept()` returns, so
\* the step is the registry write that follows it. Channels are numbered in
\* the order they are accepted.
endpoint_connect(c, user_id) ==
    /\ pc[c] = "idle"
    /\ \A b \in Chans : b < c => pc[b] # "idle"
    /\ active_connections' = connect(c, user_id)
    /\ pc' = [pc EXCEPT ![c] = "recv"]
    /\ uid' = [uid EXCEPT ![c] = user_id]
    /\ open' = [open EXCEPT ![c] = TRUE]
    /\ evicted' = evicted \ {user_id}
    /\ last_admit' = [last_admit EXCEPT ![user_id] = c]
    /\ UNCHANGED <<inbox, pend, out, nsent, dropped>>
    /\ UNCHANGED storevars

\* Lines 228-232: receive_text returns the oldest frame; it is parsed and
\* routed. An exception other than WebSocketDisconnect leaves the handler,
\* and the server drops the connection.
endpoint_receive(c) ==
    /\ pc[c] = "recv"
    /\ inbox[c] # << >>
    /\ LET m == Head(inbox[c])
           r == process_frame(c, m.data)
       IN  CASE r.kind = "raise" ->
                    /\ pc' = [pc EXCEPT ![c] = "crashed"]
                    /\ open' = [open EXCEPT ![c] = FALSE]
                    /\ inbox' = [inbox EXCEPT ![c] = << >>]
                    /\ UNCHANGED <<pend, dropped>>
              [] r.kind = "none" ->
                    /\ inbox' = [inbox EXCEPT ![c] = Tail(@)]
                    /\ dropped' = dropped \cup
                         {[from |-> c, seq |-> m.seq,
                           rid |-> m.data.obj.receiver_id,
                           was_evicted |-> m.data.obj.receiver_id \in evicted]}
                    /\ UNCHANGED <<pc, open, pend>>
              [] r.kind = "send" ->
                    /\ inbox' = [inbox EXCEPT ![c] = Tail(@)]
                    /\ pend' = [pend EXCEPT ![c] = @ \cup
                                 {[to |-> r.to, rid |-> r.rid, text |-> r.text,
                                   seq |-> m.seq, data |-> m.data]}]
                    /\ pc' = [pc EXCEPT ![c] = AfterLookup]
                    /\ UNCHANGED <<open, dropped>>
    /\ UNCHANGED <<active_connections, uid, out, nsent, evicted, last_admit>>
    /\ UNCHANGED storevars

\* Lines 228, 233-234: receive_text raises WebSocketDisconnect once the peer
\* has closed and every earlier frame was returned; the handler evicts user_id.
endpoint_disconnect(c) ==
    /\ pc[c] = "recv"
    /\ ~open[c]
    /\ inbox[c] = << >>
    /\ active_connections' = disconnect(uid[c])
    /\ pc' = [pc EXCEPT ![c] = "done"]
    /\ evicted' = evicted \cup {uid[c]}
    /\ UNCHANGED <<uid, open, inbox, pend, out, nsent, dropped, last_admit>>
    /\ UNCHANGED storevars

\* Line 218: the suspended send_text writes the frame to the handle that was
\* looked up, and the handler goes back to receive_text.
send_text_write(c, p) ==
    /\ p \in pend[c]
    /\ open[p.to]
    /\ out' = [out EXCEPT ![p.to] =
                 Append(@, [text |-> p.text, from |-> c, seq |-> p.seq, rid |-> p.rid,
                            data |-> p.data])]
    /\ pend' = [pend EXCEPT ![c] = @ \ {p}]
    /\ pc' = [pc EXCEPT ![c] = IF @ = "send" THEN "recv" ELSE @]
    /\ UNCHANGED <<active_connections, uid, open, inbox, nsent,
                   dropped, evicted, last_admit>>
    /\ UNCHANGED storevars

\* Line 218 on a connection that is no longer up: send_text raises. Which
\* exception depends on the installed server library: a WebSocketDisconnect
\* is caught at line 233, in the SENDER's handler, which evicts the sender.
send_text_disconnected(c, p) ==
    /\ p \in pend[c]
    /\ ~open[p.to]
    /\ active_connections' = disconnect(uid[c])
    /\ evicted' = evicted \cup {uid[c]}
    /\ pc' = [pc EXCEPT ![c] = "done"]
    /\ open' = [open EXCEPT ![c] = FALSE]
    /\ pend' = [pend EXCEPT ![c] = {}]
    /\ inbox' = [inbox EXCEPT ![c] = << >>]
    /\ UNCHANGED <<uid, out, nsent, dropped, last_admit>>
    /\ UNCHANGED storevars

\* ... any other exception leaves the sender's handler uncaught.
send_text_error(c, p) ==
    /\ p \in pend[c]
    /\ ~open[p.to]
    /\ pc' = [pc EXCEPT ![c] = "crashed"]
    /\ open' = [open EXCEPT ![c] = FALSE]
    /\ pend' = [pend EXCEPT ![c] = {}]
    /\ inbox' = [inbox EXCEPT ![c] = << >>]
    /\ UNCHANGED <<active_connections, uid, out, nsent, dropped, evicted, last_admit>>
    /\ UNCHANGED storevars

Pendings == UNION {pend[c] : c \in Chans}

Next ==
    \/ \E c \in Chans, u \in Users : endpoint_connect(c, u)
    \/ \E c \in Chans, data \in RawFrames : ClientSend(c, data)
    \/ \E c \in Chans : ClientClose(c)
    \/ \E c \in Chans : endpoint_receive(c)
    \/ \E c \in Chans : endpoint_disconnect(c)
    \/ \E c \in Chans : \E p \in pend[c] : send_text_write(c, p)
    \/ \E c \in Chans : \E p \in pend[c] : send_text_disconnected(c, p)
    \/ \E c \in Chans : \E p \in pend[c] : send_text_error(c, p)

\* ------------------------------------------------------------------ the record store
PROJECTS_DB_FILE == "projects.json"
SKILLS_DB_FILE == "skills.json"
USERS_DB_FILE == "users.json"
TASKS_DB_FILE == "tasks.json"
FORMS_DB_FILE == "forms.json"
DbFiles == {PROJECTS_DB_FILE, SKILLS_DB_FILE, USERS_DB_FILE, TASKS_DB_FILE, FORMS_DB_FILE}

\* `id: int = None` of the pydantic models: the id of a body that sends none.
NoId == 0
Ids == 1..MaxId
\* the user_id / project_id values requests name (they are not validated)
Refs == {1, 2}
Names == {"x", "y"}

\* Request bodies, as model.dict() gives them. Of the string fields of each
\* model one is kept (the others are copied in the same way); a Project's
\* skills list is left out.
ProjectBodies == [id : {NoId, MaxId}, name : Names]
SkillBodies == [id : {NoId, MaxId}, name : Names]
UserBodies == [id : {NoId, MaxId}, first_name : Names, password : Names]
TaskBodies == [id : {NoId, MaxId}, project_id : Refs, name : Names]
FormBodies == [id : {NoId, MaxId}, user_id : Refs, project_id : Refs, motivation : Names]

\* load_data: the list stored in the file ([] when the file is absent).
load_data(file_path) == files[file_path]

\* save_data: the file is overwritten with the whole list.
save_data(file_path, data) == files' = [files EXCEPT ![file_path] = data]

StoreSize ==
    Len(files[PROJECTS_DB_FILE]) + Len(files[SKILLS_DB_FILE]) + Len(files[USERS_DB_FILE])
        + Len(files[TASKS_DB_FILE]) + Len(files[FORMS_DB_FILE])

IdsOf(records) == {records[i].id : i \in DOMAIN records}
MaxOf(S) == CHOOSE m \in S : \A x \in S : x <= m

new_id_by_length(records) == Len(records) + 1

new_id_first_free(records) ==
    CHOOSE n \in 1..(Len(records) + 1) :
        /\ n \notin IdsOf(records)
        /\ \A m \in 1..(n - 1) : m \in IdsOf(records)

\* `1 if not records else max(r["id"] for r in records) + 1`
new_id(records) == IF records = << >> THEN 1 ELSE MaxOf(IdsOf(records)) + 1

merge_all(record, body, excluded) ==
    [k \in DOMAIN record \cup DOMAIN body |->
        IF k \in DOMAIN body THEN body[k] ELSE record[k]]

\* dict.update with model.dict(exclude=excluded): the body's other fields
\* overwrite the stored ones.
merge(record, body, excluded) ==
    [k \in DOMAIN record \cup (DOMAIN body \ excluded) |->
        IF k \in DOMAIN body \ excluded THEN body[k] ELSE record[k]]

RECURSIVE SelectRecords(_, _)
\* `[r for r in records if keep(r)]` with keep given as the set of kept records
SelectRecords(records, kept) ==
    IF records = << >> THEN << >>
    ELSE IF Head(records) \in kept
         THEN <<Head(records)>> \o SelectRecords(Tail(records), kept)
         ELSE SelectRecords(Tail(records), kept)

Matching(records, matches) == {i \in DOMAIN records : records[i] \in matches}
FirstOf(I) == CHOOSE i \in I : \A j \in I : i <= j

Ok(body) == [code |-> 200, body |-> body]
NotFound(detail) == [code |-> 404, body |-> [detail |-> detail]]
BadRequest(detail) == [code |-> 400, body |-> [detail |-> detail]]

\* The common shape of the get handlers: the first matching record, or 404.
get_record(file_path, matches, detail) ==
    /\ resp' = IF Matching(load_data(file_path), matches) = {}
               THEN NotFound(detail)
               ELSE Ok(load_data(file_path)[FirstOf(Matching(load_data(file_path), matches))])
    /\ UNCHANGED files
    /\ UNCHANGED <<chatvars, req>>

\* The common shape of the create handlers: the id is assigned over the
\* body's, the record appended and the file saved.
create_record(file_path, record) ==
    /\ StoreSize < MaxRecords
    /\ new_id(load_data(file_path)) <= MaxId
    /\ LET new_record == [record EXCEPT !.id = new_id(load_data(file_path))]
       IN  /\ save_data(file_path, Append(load_data(file_path), new_record))
           /\ resp' = Ok(new_record)
    /\ UNCHANGED <<chatvars, req>>

\* The common shape of the update handlers: the first matching record is
\* merged with the body and the file saved, or 404 and nothing saved.
update_record(file_path, matches, body, excluded, detail) ==
    LET records == load_data(file_path)
        found == Matching(records, matches)
    IN  IF found = {}
        THEN /\ resp' = NotFound(detail)
             /\ UNCHANGED files
             /\ UNCHANGED <<chatvars, req>>
        ELSE LET i == FirstOf(found)
                 updated == merge(records[i], body, excluded)
             IN  /\ save_data(file_path, [records EXCEPT ![i] = updated])
                 /\ resp' = Ok(updated)
                 /\ UNCHANGED <<chatvars, req>>

delete_record_unsaved(file_path, matches, detail, done) ==
    /\ resp' = IF Matching(load_data(file_path), matches) = {}
               THEN NotFound(detail)
               ELSE Ok([detail |-> done])
    /\ UNCHANGED files
    /\ UNCHANGED <<chatvars, req>>

\* The common shape of the delete handlers: the matching records are filtered
\* out; 404 and nothing saved when the length did not change.
delete_record(file_path, matches, detail, done) ==
    LET records == load_data(file_path)
        remaining == SelectRecords(records, {records[i] : i \in DOMAIN records} \ matches)
    IN  IF Len(remaining) = Len(records)
        THEN /\ resp' = NotFound(detail)
             /\ UNCHANGED files
             /\ UNCHANGED <<chatvars, req>>
        ELSE /\ save_data(file_path, remaining)
             /\ resp' = Ok([detail |-> done])
             /\ UNCHANGED <<chatvars, req>>

WithId(file_path, id) ==
    {load_data(file_path)[i] : i \in {j \in DOMAIN load_data(file_path) :
                                        load_data(file_path)[j].id = id}}
TaskOf_any_project(project_id, task_id) == WithId(TASKS_DB_FILE, task_id)

\* `t["id"] == task_id and t["project_id"] == project_id`
TaskOf(project_id, task_id) ==
    {t \in WithId(TASKS_DB_FILE, task_id) : t.project_id = project_id}

\* ---- projects
get_project(project_id) ==
    get_record(PROJECTS_DB_FILE, WithId(PROJECTS_DB_FILE, project_id), "Project not found")
create_project(project) == create_record(PROJECTS_DB_FILE, project)
update_project(project_id, updated_project) ==
    update_record(PROJECTS_DB_FILE, WithId(PROJECTS_DB_FILE, project_id),
                  updated_project, {"id"}, "Project not found")
delete_project_cascade(project_id) ==
    LET projects == load_data(PROJECTS_DB_FILE)
        tasks == load_data(TASKS_DB_FILE)
    IN  /\ resp' = IF project_id \in IdsOf(projects)
                   THEN Ok([detail |-> "Project deleted"])
                   ELSE NotFound("Project not found")
        /\ files' = [files EXCEPT
              ![PROJECTS_DB_FILE] =
                  SelectRecords(projects, {projects[i] : i \in DOMAIN projects}
                                            \ WithId(PROJECTS_DB_FILE, project_id)),
              ![TASKS_DB_FILE] =
                  SelectRecords(tasks, {tasks[i] : i \in {j \in DOMAIN tasks :
                                                    \/ project_id \notin IdsOf(projects)
                                                    \/ tasks[j].project_id # project_id}})]
        /\ UNCHANGED <<chatvars, req>>

delete_project(project_id) ==
    delete_record(PROJECTS_DB_FILE, WithId(PROJECTS_DB_FILE, project_id),
                  "Project not found", "Project deleted")

\* ---- skills
get_skill(skill_id) ==
    get_record(SKILLS_DB_FILE, WithId(SKILLS_DB_FILE, skill_id), "Skill not found")
create_skill(skill) == create_record(SKILLS_DB_FILE, skill)
update_skill(skill_id, updated_skill) ==
    update_record(SKILLS_DB_FILE, WithId(SKILLS_DB_FILE, skill_id),
                  updated_skill, {"id"}, "Skill not found")
delete_skill(skill_id) ==
    delete_record(SKILLS_DB_FILE, WithId(SKILLS_DB_FILE, skill_id),
                  "Skill not found", "Skill deleted")

\* ---- users
register_user(user) == create_record(USERS_DB_FILE, user)
\* The first user with the same names and password, or 400. (last_name is
\* compared like first_name and is the string field left out of UserBodies.)
login_user(user) ==
    LET users == load_data(USERS_DB_FILE)
        found == {i \in DOMAIN users : /\ users[i].first_name = user.first_name
                                       /\ users[i].password = user.password}
    IN  /\ resp' = IF found = {} THEN BadRequest("Incorrect username or password")
                   ELSE Ok(users[FirstOf(found)])
        /\ UNCHANGED files
        /\ UNCHANGED <<chatvars, req>>

\* ---- tasks
get_task(project_id, task_id) ==
    get_record(TASKS_DB_FILE, TaskOf(project_id, task_id), "Task not found")
create_task_as_sent(project_id, task) == create_record(TASKS_DB_FILE, task)

\* Line 274: the path's project_id replaces the body's.
create_task(project_id, task) ==
    create_record(TASKS_DB_FILE, [task EXCEPT !.project_id = project_id])
update_task(project_id, task_id, updated_task) ==
    update_record(TASKS_DB_FILE, TaskOf(project_id, task_id),
                  updated_task, {"id", "project_id"}, "Task not found")
delete_task(project_id, task_id) ==
    delete_record(TASKS_DB_FILE, TaskOf(project_id, task_id),
                  "Task not found", "Task deleted")

\* ---- participation forms
\* Lines 319-320: the user of the form, or None, is attached to the form.
with_user(form) ==
    LET users == load_data(USERS_DB_FILE)
        found == {i \in DOMAIN users : users[i].id = form.user_id}
    IN  [k \in DOMAIN form \cup {"user"} |->
            IF k # "user" THEN form[k]
            ELSE IF found = {} THEN [none |-> TRUE] ELSE users[FirstOf(found)]]

\* response_model=ParticipationForm: the response keeps the model's fields.
as_ParticipationForm(d) ==
    [k \in {"id", "user_id", "project_id", "motivation"} |-> d[k]]

get_form(form_id) ==
    LET forms == load_data(FORMS_DB_FILE)
        found == {i \in DOMAIN forms : forms[i].id = form_id}
    IN  /\ resp' = IF found = {} THEN NotFound("Form not found")
                   ELSE Ok(as_ParticipationForm(with_user(forms[FirstOf(found)])))
        /\ UNCHANGED files
        /\ UNCHANGED <<chatvars, req>>
create_form_unchecked(form) == create_record(FORMS_DB_FILE, form)

\* Lines 327-329: a form of the same user for the same project is refused.
create_form(form) ==
    IF \E i \in DOMAIN load_data(FORMS_DB_FILE) :
          /\ load_data(FORMS_DB_FILE)[i].user_id = form.user_id
          /\ load_data(FORMS_DB_FILE)[i].project_id = form.project_id
    THEN /\ resp' = BadRequest("Form already submitted for this project")
         /\ UNCHANGED files
         /\ UNCHANGED <<chatvars, req>>
    ELSE create_record(FORMS_DB_FILE, form)
update_form(form_id, updated_form) ==
    update_record(FORMS_DB_FILE, WithId(FORMS_DB_FILE, form_id),
                  updated_form, {"id"}, "Form not found")
delete_form(form_id) ==
    delete_record(FORMS_DB_FILE, WithId(FORMS_DB_FILE, form_id),
                  "Form not found", "Form deleted")

StoreInit ==
    /\ files = [f \in DbFiles |-> << >>]
    /\ resp = Ok([detail |-> "none"])
    /\ last_op = [op |-> "none", id |-> NoId, overrode |-> FALSE]
    /\ deleted = {}
    /\ fresh = {}
    /\ req = [w \in Requests |-> [pc |-> "idle"]]

\* ---- history
\* The last request: its handler, its path id, and whether the body named an
\* id (a project_id) other than the one the response carries.
Logged(op, id, named) ==
    last_op' = [op |-> op, id |-> id,
                overrode |-> /\ resp'.code = 200
                             /\ \E k \in DOMAIN named : named[k] # resp'.body[k]]

Range(records) == {records[i] : i \in DOMAIN records}
Came(f) == IdsOf(files'[f]) \ IdsOf(files[f])

CreateOps == {"create_project", "create_skill", "register_user", "create_task", "create_form"}
UpdateOps == {"update_project", "update_skill", "update_task", "update_form"}
DeleteOps == {"delete_project", "delete_skill", "delete_task", "delete_form"}

\* What the answers of the requests on file_path say: an id whose delete was
\* answered 200 is recorded with whether it was the highest id of the file,
\* and marked once a create returns it again; a record that a create
\* returned is recorded until an update or delete of its id is answered 200.
Tracked(file_path) ==
    LET ok(ops) == last_op'.op \in ops /\ resp'.code = 200
        others(S, id) == {e \in S : ~(e.file = file_path /\ e.id = id)}
    IN  /\ deleted' =
              IF ok(DeleteOps)
              THEN others(deleted, last_op'.id) \cup
                   {[file |-> file_path, id |-> last_op'.id,
                     top |-> \A x \in IdsOf(files[file_path]) : x <= last_op'.id,
                     reused |-> FALSE]}
              ELSE IF ok(CreateOps)
              THEN {IF d.file = file_path /\ d.id = resp'.body.id
                    THEN [d EXCEPT !.reused = TRUE] ELSE d : d \in deleted}
              ELSE deleted
        /\ fresh' =
              IF ok(CreateOps)
              THEN fresh \cup {[file |-> file_path, id |-> resp'.body.id, rec |-> resp'.body]}
              ELSE IF ok(UpdateOps \cup DeleteOps)
              THEN others(fresh, last_op'.id)
              ELSE fresh

Untracked == UNCHANGED <<deleted, fresh>>

\* One request at a time, each handler run from its load to its return.
StoreNext ==
    \/ \E i \in Ids : get_project(i) /\ Logged("get_project", i, << >>) /\ Untracked
    \/ \E b \in ProjectBodies : create_project(b) /\ Logged("create_project", NoId, [id |-> b.id]) /\ Untracked
    \/ \E i \in Ids, b \in ProjectBodies : update_project(i, b) /\ Logged("update_project", i, [id |-> b.id]) /\ Untracked
    \/ \E i \in Ids : delete_project(i) /\ Logged("delete_project", i, << >>) /\ Untracked
    \/ \E i \in Ids : get_skill(i) /\ Logged("get_skill", i, << >>) /\ Untracked
    \/ \E b \in SkillBodies : create_skill(b) /\ Logged("create_skill", NoId, [id |-> b.id]) /\ Untracked
    \/ \E i \in Ids, b \in SkillBodies : update_skill(i, b) /\ Logged("update_skill", i, [id |-> b.id]) /\ Untracked
    \/ \E i \in Ids : delete_skill(i) /\ Logged("delete_skill", i, << >>) /\ Untracked
    \/ \E b \in UserBodies : register_user(b) /\ Logged("register_user", NoId, [id |-> b.id]) /\ Untracked
    \/ \E b \in UserBodies : login_user(b) /\ Logged("login_user", NoId, << >>) /\ Untracked
    \/ \E q \in Refs, i \in Ids : get_task(q, i) /\ Logged("get_task", i, << >>) /\ Untracked
    \/ \E q \in Refs, b \in TaskBodies : create_task(q, b) /\ Logged("create_task", NoId, [id |-> b.id, project_id |-> b.project_id]) /\ Untracked
    \/ \E q \in Refs, i \in Ids, b \in TaskBodies : update_task(q, i, b) /\ Logged("update_task", i, [id |-> b.id, project_id |-> b.project_id]) /\ Untracked
    \/ \E q \in Refs, i \in Ids : delete_task(q, i) /\ Logged("delete_task", i, << >>) /\ Untracked
    \/ \E i \in Ids : get_form(i) /\ Logged("get_form", i, << >>) /\ Untracked
    \/ \E b \in FormBodies : create_form(b) /\ Logged("create_form", NoId, [id |-> b.id]) /\ Untracked
    \/ \E i \in Ids, b \in FormBodies : update_form(i, b) /\ Logged("update_form", i, [id |-> b.id]) /\ Untracked
    \/ \E i \in Ids : delete_form(i) /\ Logged("delete_form", i, << >>) /\ Untracked

ProjectOps == {"get_project", "create_project", "update_project", "delete_project"}
SkillOps == {"get_skill", "create_skill", "update_skill", "delete_skill"}
UserOps == {"register_user", "login_user"}
TaskOps == {"get_task", "create_task", "update_task", "delete_task"}
FormOps == {"get_form", "create_form", "update_form", "delete_form"}

\* The requests so far, if any, were on the collection of these handlers.
OneOf(ops) == last_op.op \in ops \cup {"none"}

\* The requests on one collection, one at a time, with the history of its
\* deletions and creations kept: a behaviour stays with the collection of its
\* first request.
HistoryNext ==
    \/ \E i \in Ids : OneOf(ProjectOps) /\ get_project(i) /\ Logged("get_project", i, << >>) /\ Tracked(PROJECTS_DB_FILE)
    \/ \E b \in ProjectBodies : OneOf(ProjectOps) /\ create_project(b) /\ Logged("create_project", NoId, [id |-> b.id]) /\ Tracked(PROJECTS_DB_FILE)
    \/ \E i \in Ids, b \in ProjectBodies : OneOf(ProjectOps) /\ update_project(i, b) /\ Logged("update_project", i, [id |-> b.id]) /\ Tracked(PROJECTS_DB_FILE)
    \/ \E i \in Ids : OneOf(ProjectOps) /\ delete_project(i) /\ Logged("delete_project", i, << >>) /\ Tracked(PROJECTS_DB_FILE)
    \/ \E i \in Ids : OneOf(SkillOps) /\ get_skill(i) /\ Logged("get_skill", i, << >>) /\ Tracked(SKILLS_DB_FILE)
    \/ \E b \in SkillBodies : OneOf(SkillOps) /\ create_skill(b) /\ Logged("create_skill", NoId, [id |-> b.id]) /\ Tracked(SKILLS_DB_FILE)
    \/ \E i \in Ids, b \in SkillBodies : OneOf(SkillOps) /\ update_skill(i, b) /\ Logged("update_skill", i, [id |-> b.id]) /\ Tracked(SKILLS_DB_FILE)
    \/ \E i \in Ids : OneOf(SkillOps) /\ delete_skill(i) /\ Logged("delete_skill", i, << >>) /\ Tracked(SKILLS_DB_FILE)
    \/ \E b \in UserBodies : OneOf(UserOps) /\ register_user(b) /\ Logged("register_user", NoId, [id |-> b.id]) /\ Tracked(USERS_DB_FILE)
    \/ \E b \in UserBodies : OneOf(UserOps) /\ login_user(b) /\ Logged("login_user", NoId, << >>) /\ Tracked(USERS_DB_FILE)
    \/ \E q \in Refs, i \in Ids : OneOf(TaskOps) /\ get_task(q, i) /\ Logged("get_task", i, << >>) /\ Tracked(TASKS_DB_FILE)
    \/ \E q \in Refs, b \in TaskBodies : OneOf(TaskOps) /\ create_task(q, b) /\ Logged("create_task", NoId, [id |-> b.id, project_id |-> b.project_id]) /\ Tracked(TASKS_DB_FILE)
    \/ \E q \in Refs, i \in Ids, b \in TaskBodies : OneOf(TaskOps) /\ update_task(q, i, b) /\ Logged("update_task", i, [id |-> b.id, project_id |-> b.project_id]) /\ Tracked(TASKS_DB_FILE)
    \/ \E q \in Refs, i \in Ids : OneOf(TaskOps) /\ delete_task(q, i) /\ Logged("delete_task", i, << >>) /\ Tracked(TASKS_DB_FILE)
    \/ \E i \in Ids : OneOf(FormOps) /\ get_form(i) /\ Logged("get_form", i, << >>) /\ Tracked(FORMS_DB_FILE)
    \/ \E b \in FormBodies : OneOf(FormOps) /\ create_form(b) /\ Logged("create_form", NoId, [id |-> b.id]) /\ Tracked(FORMS_DB_FILE)
    \/ \E i \in Ids, b \in FormBodies : OneOf(FormOps) /\ update_form(i, b) /\ Logged("update_form", i, [id |-> b.id]) /\ Tracked(FORMS_DB_FILE)
    \/ \E i \in Ids : OneOf(FormOps) /\ delete_form(i) /\ Logged("delete_form", i, << >>) /\ Tracked(FORMS_DB_FILE)

\* ------------------------------------------------------------------ concurrent creates
\* create_project and register_user are plain `def` handlers: each request
\* runs on a worker thread, and another request can run between its
\* load_data and its save_data. A request w holds what it loaded.
written_reloaded(data, current, record) == Append(current, record)

\* `records.append(new_record); save_data(FILE, records)`: the list that is
\* saved is the one that was loaded, whatever the file holds by now.
written(data, current, record) == Append(data, record)

\* The handler up to its load_data.
begin_create(w, file_path, body) ==
    /\ req[w].pc = "idle"
    /\ Len(load_data(file_path)) < MaxRecords
    /\ new_id(load_data(file_path)) <= MaxId
    /\ req' = [req EXCEPT ![w] = [pc |-> "loaded", file |-> file_path,
                                  data |-> load_data(file_path), body |-> body]]
    /\ UNCHANGED <<files, resp, histvars>>
    /\ UNCHANGED chatvars

\* The rest of the handler: the id from the loaded list, append, save, return.
finish_create(w) ==
    /\ req[w].pc = "loaded"
    /\ LET new_record == [req[w].body EXCEPT !.id = new_id(req[w].data)]
       IN  /\ save_data(req[w].file,
                        written(req[w].data, load_data(req[w].file), new_record))
           /\ req' = [req EXCEPT ![w] = [pc |-> "done", file |-> req[w].file,
                                         data |-> req[w].data,
                                         result |-> new_record]]
    /\ UNCHANGED <<resp, histvars>>
    /\ UNCHANGED chatvars

\* The response has gone out and the worker takes another request.
next_request(w) ==
    /\ req[w].pc = "done"
    /\ req' = [req EXCEPT ![w] = [pc |-> "idle"]]
    /\ UNCHANGED <<files, resp, histvars>>
    /\ UNCHANGED chatvars

ConcNext ==
    \/ \E w \in Requests, b \in ProjectBodies : begin_create(w, PROJECTS_DB_FILE, b)
    \/ \E w \in Requests, b \in UserBodies : begin_create(w, USERS_DB_FILE, b)
    \/ \E w \in Requests : finish_create(w)
    \/ \E w \in Requests : next_request(w)

\* ------------------------------------------------------------------ specifications
Init == ChatInit /\ StoreInit

\* The chat: handlers and clients interleave at the awaits.
Spec == Init /\ [][Next]_vars

\* The record store under requests that do not interleave.
StoreSpec == Init /\ [][StoreNext]_vars

\* The requests on any one collection, with their history.
HistorySpec == Init /\ [][HistoryNext]_vars

\* Create requests that interleave between their load and their save.
ConcSpec == Init /\ [][ConcNext]_vars

\* ------------------------------------------------------------------ steps of a handler
\* The handler of c takes the oldest frame of its channel in this step.
Dequeues(c) ==
    /\ pc[c] = "recv"
    /\ inbox[c] # << >>
    /\ Len(inbox'[c]) < Len(inbox[c])
    /\ pend[c] \subseteq pend'[c]

HeadData(c) == Head(inbox[c]).data
HeadReceiver(c) == HeadData(c).obj.receiver_id

\* ... and the frame is well-formed and names receiver id r.
Routes(c, r) ==
    /\ Dequeues(c)
    /\ IsWellFormed(HeadData(c))
    /\ HeadReceiver(c) = r

\* What the write of pending send p by handler c puts on the channel.
Written(c, p) ==
    [text |-> p.text, from |-> c, seq |-> p.seq, rid |-> p.rid, data |-> p.data]

OutEntries == {<<h, i>> \in Chans \X (1..MaxFrames) : i <= Len(out[h])}

\* ------------------------------------------------------------------ C1
\* C1 (as amended): a well-formed frame {receiver_id: r, message: t} received
\* while channel B is registered for r enters exactly one send_text of t on B
\* and writes nothing yet; when that send_text completes with B still up,
\* exactly one frame carrying t is appended to B and no other channel is
\* written to.
C1_RouteDelivers ==
    [][\A c \in Chans :
         /\ \A r \in DOMAIN active_connections :
               Routes(c, r) =>
                 /\ pend'[c] = {[to |-> active_connections[r], rid |-> r,
                                 text |-> HeadData(c).obj.message,
                                 seq |-> Head(inbox[c]).seq, data |-> HeadData(c)]}
                 /\ out' = out
         /\ \A p \in pend[c] :
               (p \notin pend'[c] /\ open[p.to]) =>
                 out' = [out EXCEPT ![p.to] = Append(@, Written(c, p))]
      ]_vars

\* C1 as stated: the routing of the frame always ends with exactly one frame
\* written to B, whether or not B's peer has closed in the meantime.
C1_AsStated ==
    [][\A c \in Chans :
         \A p \in pend[c] :
            p \notin pend'[c] =>
              out' = [out EXCEPT ![p.to] = Append(@, Written(c, p))]
      ]_vars

\* A frame from a channel of another user was delivered to the registered
\* channel B, once, and nothing was written anywhere else.
C1_Witness ==
    \E B \in Chans, s \in Chans :
        /\ s # B
        /\ uid[s] # uid[B]
        /\ uid[B] \in DOMAIN active_connections
        /\ active_connections[uid[B]] = B
        /\ Len(out[B]) = 1
        /\ out[B][1].from = s
        /\ out[B][1].text = "b"
        /\ out[B][1].data.obj.message = "b"
        /\ pend[s] = {}
        /\ \A h \in Chans \ {B} : out[h] = << >>

\* ------------------------------------------------------------------ C2
\* C2: a well-formed frame whose receiver_id is not in the registry writes no
\* frame, enters no send, leaves the registry unchanged, and leaves the
\* sender's handler in its receive loop with the connection as it was.
C2_AbsentReceiverDropped ==
    [][\A c \in Chans : \A r \in ReceiverIds \ DOMAIN active_connections :
         Routes(c, r) =>
           /\ out' = out
           /\ pend' = pend
           /\ active_connections' = active_connections
           /\ pc'[c] = "recv"
           /\ open' = open
           /\ inbox'[c] = Tail(inbox[c])
      ]_vars

\* A channel had its first frame discarded for an absent receiver, and its
\* second frame was then delivered.
C2_Witness ==
    \E c \in Chans, h \in Chans :
        /\ \E d \in dropped : d.from = c /\ d.seq = 1
        /\ Len(out[h]) = 1
        /\ out[h][1].from = c
        /\ out[h][1].seq = 2
        /\ open[c]
        /\ pc[c] = "recv"
        /\ active_connections[uid[c]] = c

\* ------------------------------------------------------------------ C3
\* C3: while the last registry operation on id u is the eviction that followed
\* its admission, a frame routed to u writes nothing and enters no send.
C3_EvictedReceivesNothing ==
    [][\A c \in Chans : \A u \in evicted :
         Routes(c, u) => (out' = out /\ pend' = pend)
      ]_vars

\* A frame addressed to an evicted id was discarded.
C3_Witness ==
    \E d \in dropped : d.was_evicted /\ d.rid \in evicted

\* ------------------------------------------------------------------ C4
\* C4: once C has replaced A as the channel admitted last for u, every frame
\* routed to u while C is up enters a send on C, whatever A has done.
C4_LastAdmissionWins ==
    [][\A c \in Chans : \A u \in Users :
         (/\ Routes(c, u)
          /\ last_admit[u] # 0
          /\ open[last_admit[u]]
          /\ \E A \in Chans : A # last_admit[u] /\ uid[A] = u)
         => \E p \in pend'[c] \ pend[c] : p.to = last_admit[u]
      ]_vars

\* ------------------------------------------------------------------ C5
\* C5: no handler has ended while the registry still maps its user id to its
\* channel.
C5_ReleasedOnEveryExit ==
    \A c \in Chans :
        pc[c] \in {"done", "crashed"} =>
            ~(uid[c] \in DOMAIN active_connections /\ active_connections[uid[c]] = c)

\* ------------------------------------------------------------------ C6
\* C6: a malformed frame is rejected alone: the handler stays in its receive
\* loop, the connection stays up and the registry is unchanged.
C6_MalformedRejectedAlone ==
    [][\A c \in Chans :
         (Dequeues(c) /\ ~IsWellFormed(HeadData(c))) =>
           /\ pc'[c] = "recv"
           /\ open'[c] = open[c]
           /\ active_connections' = active_connections
      ]_vars

\* ------------------------------------------------------------------ C7
\* C7: a handler has at most one frame in routing, takes no later frame while
\* it is, and every channel receives the frames of one sender channel in the
\* order that sender's client wrote them.
C7_InArrivalOrder ==
    \A c \in Chans :
        /\ Cardinality(pend[c]) <= 1
        /\ pend[c] # {} => pc[c] = "send"
        /\ \A p \in pend[c] :
              /\ \A i \in DOMAIN inbox[c] : p.seq < inbox[c][i].seq
              /\ \A e \in OutEntries : out[e[1]][e[2]].from = c => out[e[1]][e[2]].seq < p.seq
        /\ \A i, j \in DOMAIN out[c] :
              (i < j /\ out[c][i].from = out[c][j].from) => out[c][i].seq < out[c][j].seq

\* Two frames of one sender were delivered to the same channel.
C7_Witness ==
    \E h \in Chans, s \in Chans :
        /\ s # h
        /\ Len(out[h]) = 2
        /\ out[h][1].from = s /\ out[h][1].seq = 1
        /\ out[h][2].from = s /\ out[h][2].seq = 2

\* ------------------------------------------------------------------ C8
\* C8: at the moment a frame is written to a channel, that channel is the
\* registry's entry for the frame's receiver_id.
C8_WriteToRegisteredHandle ==
    [][\A h \in Chans :
         out'[h] # out[h] =>
           LET e == out'[h][Len(out'[h])]
           IN  /\ e.rid \in DOMAIN active_connections
               /\ active_connections[e.rid] = h
      ]_vars

\* ------------------------------------------------------------------ C9
\* C9 (as amended): every frame written to a channel is the message text of a
\* well-formed frame some client sent, whose receiver_id is the id the channel
\* was admitted under, and no received frame is written more than once; the
\* sender may be the receiver itself.
C9_OnlyRoutedFrames ==
    /\ \A e \in OutEntries :
         LET w == out[e[1]][e[2]]
         IN  /\ w.data \in WellFormedFrames
             /\ w.text = w.data.obj.message
             /\ w.rid = w.data.obj.receiver_id
             /\ uid[e[1]] = w.rid
             /\ pc[w.from] # "idle"
             /\ w.seq <= nsent[w.from]
    /\ \A e, f \in OutEntries :
         (out[e[1]][e[2]].from = out[f[1]][f[2]].from
            /\ out[e[1]][e[2]].seq = out[f[1]][f[2]].seq) => e = f

\* C9 as stated: moreover the sender's id differs from the receiver's and
\* no frame is written back to the channel it was received on.
C9_AsStated ==
    \A e \in OutEntries :
        LET w == out[e[1]][e[2]]
        IN  /\ w.text = w.data.obj.message
            /\ uid[e[1]] = w.rid
            /\ uid[w.from] # w.rid
            /\ w.from # e[1]

\* A frame was written back to the channel it was received on.
C9_Witness ==
    \E e \in OutEntries : out[e[1]][e[2]].from = e[1] /\ out[e[1]][e[2]].text = "b"

\* ------------------------------------------------------------------ C10
\* C10: in each of the five collections no two records hold the same id, and
\* a create appends one record whose id is 1 when the collection was empty
\* and the largest existing id plus 1 otherwise (for tasks: over the tasks of
\* all projects), returns that id and leaves the earlier records as they were.
C10_IdAssignment ==
    /\ [](\A f \in DbFiles : \A i, j \in DOMAIN files[f] :
             i # j => files[f][i].id # files[f][j].id)
    /\ [][\A f \in DbFiles :
            Len(files'[f]) > Len(files[f]) =>
              /\ Len(files'[f]) = Len(files[f]) + 1
              /\ SubSeq(files'[f], 1, Len(files[f])) = files[f]
              /\ files'[f][Len(files'[f])].id =
                    (IF Len(files[f]) = 0 THEN 1
                     ELSE 1 + CHOOSE m \in {files[f][i].id : i \in DOMAIN files[f]} :
                                \A i \in DOMAIN files[f] : files[f][i].id <= m)
              /\ resp'.code = 200
              /\ resp'.body = files'[f][Len(files'[f])]
         ]_vars

\* After the task with id 1 was deleted, a create for another project was
\* given id 3, next to the task with id 2.
C10_Witness ==
    /\ Len(files[TASKS_DB_FILE]) = 2
    /\ files[TASKS_DB_FILE][1].id = 2
    /\ files[TASKS_DB_FILE][2].id = 3
    /\ files[TASKS_DB_FILE][1].project_id # files[TASKS_DB_FILE][2].project_id
    /\ resp = Ok(files[TASKS_DB_FILE][2])

\* ------------------------------------------------------------------ C11
\* The request v has returned, and w loaded the same list of the same file
\* before v saved.
Overlapped(v, w) ==
    /\ v # w
    /\ req[v].pc = "done"
    /\ req[w].pc = "loaded"
    /\ req[w].file = req[v].file
    /\ req[w].data = req[v].data

\* C11: concurrent creates on one collection are not protected. When a
\* create saves after another create that had loaded the same list has
\* returned, it returns the id the other one returned, and the record the
\* other one reported is no longer in the file (unless the two records are
\* equal).
C11_ConcurrentCreatesCollide ==
    [][\A v, w \in Requests :
          Overlapped(v, w) /\ finish_create(w) =>
              /\ req'[w].pc = "done"
              /\ req'[w].result.id = req[v].result.id
              /\ req[v].result # req'[w].result =>
                     req[v].result \notin Range(files'[req[v].file])]_vars

\* Both creates have returned the same id, and the first one's record is gone.
C11_Witness ==
    \E v, w \in Requests :
        /\ v # w
        /\ req[v].pc = "done" /\ req[w].pc = "done"
        /\ req[v].file = req[w].file
        /\ req[v].result.id = req[w].result.id
        /\ req[v].result \notin Range(files[req[v].file])
        /\ req[w].result \in Range(files[req[w].file])

\* ------------------------------------------------------------------ C12
SamePair(a, b) == a.user_id = b.user_id /\ a.project_id = b.project_id

\* C12: in every state the forms collection holds at most one form per
\* (user_id, project_id) pair.
C12_OneFormPerPair ==
    \A i, j \in DOMAIN files[FORMS_DB_FILE] :
        SamePair(files[FORMS_DB_FILE][i], files[FORMS_DB_FILE][j]) => i = j

\* ------------------------------------------------------------------ C13
Submitted(form) == \E f \in Range(files[FORMS_DB_FILE]) : SamePair(f, form)

\* C13: a form create for a (user_id, project_id) pair that a stored form
\* has is answered 400 "Form already submitted for this project" and the
\* files stay as they are; any other form create (in particular for the same
\* user and another project) appends the body under an id no stored form
\* has and returns it.
C13_ConflictOrAppend ==
    [][\A b \in FormBodies :
          last_op'.op = "create_form" /\ create_form(b) =>
              IF Submitted(b)
              THEN /\ resp' = BadRequest("Form already submitted for this project")
                   /\ files' = files
              ELSE /\ resp'.code = 200
                   /\ resp'.body.id \notin IdsOf(files[FORMS_DB_FILE])
                   /\ resp'.body = [b EXCEPT !.id = resp'.body.id]
                   /\ files' = [files EXCEPT ![FORMS_DB_FILE] =
                                   Append(files[FORMS_DB_FILE], resp'.body)]]_vars

\* Two forms of one user for two projects are stored, and a further create
\* for one of the pairs has just been refused.
C13_Witness ==
    /\ last_op.op = "create_form"
    /\ resp = BadRequest("Form already submitted for this project")
    /\ \E i, j \in DOMAIN files[FORMS_DB_FILE] :
          /\ files[FORMS_DB_FILE][i].user_id = files[FORMS_DB_FILE][j].user_id
          /\ files[FORMS_DB_FILE][i].project_id # files[FORMS_DB_FILE][j].project_id

\* ------------------------------------------------------------------ C14
\* n is the id after the highest id of the list (1 for the empty list)
NextAfter(records, n) ==
    /\ \A x \in IdsOf(records) : x < n
    /\ n = 1 \/ n - 1 \in IdsOf(records)

\* C14 as stated: a create assigns the id of a deleted record only if that
\* record held the highest id of its collection when it was deleted.
C14_AsStated ==
    [][\A d \in deleted : d.id \in Came(d.file) => d.top]_vars

\* C14: a create assigns the id of a deleted record exactly when that id is
\* the one after the highest id stored at the time of the create (1 when
\* nothing is stored), whether or not the record held the highest id when it
\* was deleted; an id below the highest stored one is never assigned.
C14_ReusedWhenNext ==
    [][\A f \in DbFiles :
          /\ \A n \in Came(f) : NextAfter(files[f], n)
          /\ \A d \in deleted :
                d.file = f /\ ~d.reused /\ Len(files'[f]) > Len(files[f]) =>
                    (d.id \in Came(f) <=> NextAfter(files[f], d.id))]_vars

\* An id that was deleted below a higher one is stored again.
C14_Witness ==
    \E d \in deleted :
        /\ ~d.top
        /\ d.reused
        /\ d.id \in IdsOf(files[d.file])

\* ------------------------------------------------------------------ C15
\* A delete of id was answered 200 and no create has returned id since.
Deleted(file_path, id) ==
    \E d \in deleted : d.file = file_path /\ d.id = id /\ ~d.reused

\* C15: from a successful delete of id i until a create assigns i again,
\* every get for i is answered 404 (for a task under whichever project_id,
\* the one of the delete included).
C15_DeletedStaysNotFound ==
    [][/\ \A i \in Ids : get_project(i) /\ Deleted(PROJECTS_DB_FILE, i) =>
                              resp' = NotFound("Project not found")
       /\ \A i \in Ids : get_skill(i) /\ Deleted(SKILLS_DB_FILE, i) =>
                              resp' = NotFound("Skill not found")
       /\ \A q \in Refs, i \in Ids : get_task(q, i) /\ Deleted(TASKS_DB_FILE, i) =>
                              resp' = NotFound("Task not found")
       /\ \A i \in Ids : get_form(i) /\ Deleted(FORMS_DB_FILE, i) =>
                              resp' = NotFound("Form not found")]_vars

\* A get of a deleted task id has been answered 404 while another task is
\* stored.
C15_Witness ==
    /\ last_op.op = "get_task"
    /\ Deleted(TASKS_DB_FILE, last_op.id)
    /\ resp = NotFound("Task not found")
    /\ files[TASKS_DB_FILE] # << >>

\* ------------------------------------------------------------------ C16
\* The step rewrote the record with this id in place: the fields in kept are
\* as stored, the others are the body's, the other records are as they were,
\* and the answer is the record as rewritten.
UpdatedAs(file_path, id, body, kept) ==
    \E k \in DOMAIN files[file_path] :
        /\ files[file_path][k].id = id
        /\ DOMAIN files'[file_path] = DOMAIN files[file_path]
        /\ \A j \in DOMAIN files[file_path] \ {k} :
               files'[file_path][j] = files[file_path][j]
        /\ files'[file_path][k].id = id
        /\ \A f \in kept : files'[file_path][k][f] = files[file_path][k][f]
        /\ \A f \in DOMAIN body \ kept : files'[file_path][k][f] = body[f]
        /\ resp'.body = files'[file_path][k]

\* C16: an update answered 200 leaves the record's id (for a task also its
\* project_id) as stored whatever the body carries for it, gives every other
\* field the body's value, and changes no other record.
C16_UpdateKeepsIdentity ==
    [][resp'.code = 200 =>
        /\ \A b \in ProjectBodies :
              last_op'.op = "update_project" /\ update_project(last_op'.id, b) =>
                  UpdatedAs(PROJECTS_DB_FILE, last_op'.id, b, {"id"})
        /\ \A b \in SkillBodies :
              last_op'.op = "update_skill" /\ update_skill(last_op'.id, b) =>
                  UpdatedAs(SKILLS_DB_FILE, last_op'.id, b, {"id"})
        /\ \A q \in Refs, b \in TaskBodies :
              last_op'.op = "update_task" /\ update_task(q, last_op'.id, b) =>
                  UpdatedAs(TASKS_DB_FILE, last_op'.id, b, {"id", "project_id"})
        /\ \A b \in FormBodies :
              last_op'.op = "update_form" /\ update_form(last_op'.id, b) =>
                  UpdatedAs(FORMS_DB_FILE, last_op'.id, b, {"id"})]_vars

\* An update of one of two tasks whose body named another id or project_id
\* has been answered with the stored ones.
C16_Witness ==
    /\ last_op.op = "update_task"
    /\ last_op.overrode
    /\ resp.code = 200
    /\ resp.body.id = last_op.id
    /\ resp.body \in Range(files[TASKS_DB_FILE])
    /\ Len(files[TASKS_DB_FILE]) = 2

\* ------------------------------------------------------------------ C17
\* The records a create returned for this id of the file, with no update or
\* delete of the id answered 200 since.
Created(file_path, id) == {x.rec : x \in {y \in fresh : y.file = file_path /\ y.id = id}}

\* The step appended the record it answers with.
Persisted(file_path) ==
    /\ resp'.code = 200
    /\ files' = [files EXCEPT ![file_path] = Append(files[file_path], resp'.body)]

\* C17: a create answers with the record it appended (a task under the
\* path's project_id), and a get by that id, with no update or delete of the
\* id in between, answers 200 with that record field by field.
C17_GetReturnsCreated ==
    [][/\ \A b \in ProjectBodies :
            last_op'.op = "create_project" /\ create_project(b) =>
                Persisted(PROJECTS_DB_FILE) /\ resp'.body.name = b.name
       /\ \A q \in Refs, b \in TaskBodies :
            last_op'.op = "create_task" /\ create_task(q, b) =>
                /\ Persisted(TASKS_DB_FILE)
                /\ resp'.body.project_id = q
                /\ resp'.body.name = b.name
       /\ last_op'.op = "get_project" /\ get_project(last_op'.id) =>
            \A r \in Created(PROJECTS_DB_FILE, last_op'.id) : resp' = Ok(r)
       /\ last_op'.op = "get_skill" /\ get_skill(last_op'.id) =>
            \A r \in Created(SKILLS_DB_FILE, last_op'.id) : resp' = Ok(r)
       /\ \A q \in Refs :
            last_op'.op = "get_task" /\ get_task(q, last_op'.id) =>
                \A r \in Created(TASKS_DB_FILE, last_op'.id) :
                    r.project_id = q => resp' = Ok(r)
       /\ last_op'.op = "get_form" /\ get_form(last_op'.id) =>
            \A r \in Created(FORMS_DB_FILE, last_op'.id) : resp' = Ok(r)]_vars

\* A get has returned the second task as its create returned it.
C17_Witness ==
    /\ last_op.op = "get_task"
    /\ last_op.id = 2
    /\ resp.code = 200
    /\ resp.body \in Created(TASKS_DB_FILE, 2)

\* ------------------------------------------------------------------ C18
\* No file but file_path differs after the step.
OnlyChanges(file_path) == \A g \in DbFiles \ {file_path} : files'[g] = files[g]

\* C18: a request changes no collection but its own; in particular the
\* delete of a project leaves tasks.json and forms.json as they are, and a
\* stored task is returned by its get whether or not a project of its
\* project_id is stored.
C18_OwnCollectionOnly ==
    [][/\ last_op'.op \in ProjectOps => OnlyChanges(PROJECTS_DB_FILE)
       /\ last_op'.op \in SkillOps => OnlyChanges(SKILLS_DB_FILE)
       /\ last_op'.op \in UserOps => OnlyChanges(USERS_DB_FILE)
       /\ last_op'.op \in TaskOps => OnlyChanges(TASKS_DB_FILE)
       /\ last_op'.op \in FormOps => OnlyChanges(FORMS_DB_FILE)
       /\ \A i \in Ids :
            last_op'.op = "delete_project" /\ delete_project(i) =>
                /\ files'[TASKS_DB_FILE] = files[TASKS_DB_FILE]
                /\ files'[FORMS_DB_FILE] = files[FORMS_DB_FILE]
       /\ \A q \in Refs :
            last_op'.op = "get_task" /\ get_task(q, last_op'.id) =>
                \A t \in Range(files[TASKS_DB_FILE]) :
                    t.id = last_op'.id /\ t.project_id = q => resp' = Ok(t)
       /\ last_op'.op = "get_form" /\ get_form(last_op'.id) =>
            \A f \in Range(files[FORMS_DB_FILE]) :
                f.id = last_op'.id => resp' = Ok(f)]_vars

\* A project has just been deleted and a task of its id is still stored.
C18_Witness ==
    /\ last_op.op = "delete_project"
    /\ resp = Ok([detail |-> "Project deleted"])
    /\ last_op.id \notin IdsOf(files[PROJECTS_DB_FILE])
    /\ \E t \in Range(files[TASKS_DB_FILE]) : t.project_id = last_op.id

\* ------------------------------------------------------------------ C19
\* C19: the entry of a user id is removed only by the disconnect of the
\* channel registered under it, so while the channel admitted last for u is
\* up, u is in the registry.
C19_EntryOutlivesReplaced ==
    \A u \in Users :
        last_admit[u] # 0 /\ open[last_admit[u]] => u \in DOMAIN active_connections

\* ------------------------------------------------------------------ C20
Refused(detail) == resp' = NotFound(detail) /\ files' = files

\* C20: a request answered with an error leaves every file as it was; an
\* update or delete of an id that is not stored (for a task: not stored under
\* the path's project_id) is answered 404, and a login that no stored user
\* matches is answered 400.
C20_ErrorsSaveNothing ==
    [][/\ resp'.code # 200 => files' = files
       /\ last_op'.op \in {"update_project", "delete_project"}
            /\ last_op'.id \notin IdsOf(files[PROJECTS_DB_FILE]) => Refused("Project not found")
       /\ last_op'.op \in {"update_skill", "delete_skill"}
            /\ last_op'.id \notin IdsOf(files[SKILLS_DB_FILE]) => Refused("Skill not found")
       /\ last_op'.op \in {"update_form", "delete_form"}
            /\ last_op'.id \notin IdsOf(files[FORMS_DB_FILE]) => Refused("Form not found")
       /\ last_op'.op = "update_task" =>
            \A q \in Refs, b \in TaskBodies :
                /\ update_task(q, last_op'.id, b)
                /\ ~\E t \in Range(files[TASKS_DB_FILE]) :
                      t.id = last_op'.id /\ t.project_id = q
                => Refused("Task not found")
       /\ last_op'.op = "delete_task" =>
            \A q \in Refs :
                /\ delete_task(q, last_op'.id)
                /\ ~\E t \in Range(files[TASKS_DB_FILE]) :
                      t.id = last_op'.id /\ t.project_id = q
                => Refused("Task not found")
       /\ last_op'.op = "login_user" =>
            \A b \in UserBodies :
                /\ login_user(b)
                /\ ~\E u \in Range(files[USERS_DB_FILE]) :
                      u.first_name = b.first_name /\ u.password = b.password
                => resp' = BadRequest("Incorrect username or password") /\ files' = files
      ]_vars

\* An update of a stored task under another project_id has been refused.
C20_Witness ==
    /\ last_op.op = "update_task"
    /\ resp = NotFound("Task not found")
    /\ last_op.id \in IdsOf(files[TASKS_DB_FILE])

====
